---- MODULE Spec2Model ----
(***************************************************************************)
(* State-machine model of lib/inference.ts: the five asynchronous          *)
(* operations verifyActCompletion, act, extract, observe and ask, each     *)
(* driving requests to the completion client (llmClient.createChat-        *)
(* Completion) and turning its responses into a result or a rejection.     *)
(*                                                                         *)
(* An invocation occupies a slot p.  It suspends exactly at its awaits:    *)
(* pc[p] = "awaiting" while a request is outstanding, "ready" once the     *)
(* client has settled it and the continuation has not yet run, and         *)
(* "resolved" / "rejected" once the returned promise has settled.          *)
(***************************************************************************)
EXTENDS Integers, Sequences, FiniteSets, TLC

\* ------------------------------------------------------------------ bounds
\* Number of invocation slots.
NumOps == 2
\* Largest retry counter a caller passes to act (the default is 0).
MaxStartRetries == 3
\* Largest number of tool invocations in one act response.
MaxToolCalls == 2
\* How far below 0 a caller's retry counter goes in AnyRetriesSpec.
MaxBelowZero == 2

\* ------------------------------------------------------- program constants
\* `retries >= 2`: the retry ceiling of act.
RetryCeiling == 2
\* `retries = 0`: the default retry counter of act.
DefaultRetries == 0

Procs == 1..NumOps

VARIABLES
  op,           \* op[p]: the operation slot p runs ("none" before the call)
  pc,           \* pc[p]: "idle", "awaiting", "ready", "resolved", "rejected"
  args,         \* args[p]: the arguments of the caller's invocation
  frame,        \* frame[p]: the arguments of the innermost active call
  depth,        \* depth[p]: number of nested recursive calls of act
  locals,       \* locals[p]: the responses the call has bound to names
  requests,     \* requests[p]: the completion requests issued, in order
  outstanding,  \* outstanding[p]: indexes of requests not yet settled
  responses,    \* responses[p]: the settlements received, in order
  result,       \* result[p]: the value the promise resolved to
  error,        \* error[p]: the reason the promise rejected with
  log           \* log[p]: the entries handed to the logger, in order

vars == <<op, pc, args, frame, depth, locals, requests, outstanding, responses,
          result, error, log>>

Last(s) == s[Len(s)]

\* ---------------------------------------------------------------- values
\* A JavaScript value is a record with its kind and, for a primitive, its
\* text; objects carry their fields as further record fields.
Undefined == [kind |-> "undefined", prim |-> ""]
Null == [kind |-> "null", prim |-> ""]
Str(s) == [kind |-> "string", prim |-> s]
Num(s) == [kind |-> "number", prim |-> s]
Bool(s) == [kind |-> "boolean", prim |-> s]
False == Bool("false")
True == Bool("true")

\* The primitives a client can hand back, falsy and truthy ones of each type.
Primitives ==
  {Undefined, Null, Str(""), Str("text"), Num("0"), Num("7"), False, True}

\* `typeof v`: null is an object to typeof.
TypeOf(v) == IF v.kind = "null" THEN "object" ELSE v.kind

\* ToBoolean(v), as `!v` and `v ? a : b` and `a && b` apply it.
Truthy(v) ==
  CASE v.kind \in {"undefined", "null"} -> FALSE
    [] v.kind \in {"string", "number", "boolean"} ->
         v.prim \notin {"", "0", "false"}
    [] OTHER -> TRUE

\* Reading or writing a property of null or undefined throws a TypeError.
Nullish(v) == v.kind \in {"undefined", "null"}

\* JSON.stringify(v) followed by string concatenation: undefined stays
\* the text "undefined", a string is quoted, an object is serialised.
JsonStringify(v) ==
  CASE v.kind = "undefined" -> "undefined"
    [] v.kind = "null" -> "null"
    [] v.kind = "string" -> "'" \o v.prim \o "'"
    [] v.kind \in {"number", "boolean"} -> v.prim
    [] OTHER -> "{...}"

\* ------------------------------------------------------- the client's side
\* A settlement of one request: fulfilled with val, or rejected with err.
Fulfilled(v) == [ok |-> TRUE, val |-> v, err |-> ""]
Failed(e) == [ok |-> FALSE, val |-> Undefined, err |-> e]

\* The failures the completion client surfaces.
ClientErrors == {"ClientTimeout", "ClientSchemaError"}

\* `await` of a rejected promise throws the rejection reason.
Thrown(r) == ~r.ok

\* ------------------------------------------------------------- arguments
\* The arguments of an invocation.  Every operation reads the fields it
\* declares; the others keep the values below and are never read.
NoArgs ==
  [instruction |-> "", steps |-> "", domElements |-> "", modelName |-> "",
   screenshot |-> FALSE, retries |-> DefaultRetries,
   previouslyExtractedContent |-> "", chunksSeen |-> 0, chunksTotal |-> 0]

Instructions == {"click the submit button", "list the items"}

\* verifyActCompletion({goal, steps, llmProvider, modelName, screenshot,
\* domElements, logger}).
VerifyArgs ==
  {[NoArgs EXCEPT !.instruction = i, !.steps = "step log",
                  !.domElements = "0:<button>", !.modelName = "gpt-4o",
                  !.screenshot = s] :
     i \in Instructions, s \in BOOLEAN}

\* act({action, domElements, steps, llmProvider, modelName, screenshot,
\* retries = 0, logger}): retries is a counter, 0 unless the caller sets it.
ActArgs ==
  {[NoArgs EXCEPT !.instruction = i, !.steps = "step log",
                  !.domElements = "0:<button>", !.modelName = "gpt-4o",
                  !.screenshot = s, !.retries = r] :
     i \in Instructions, s \in BOOLEAN, r \in DefaultRetries..MaxStartRetries}

\* extract({instruction, progress, previouslyExtractedContent, domElements,
\* schema, llmProvider, modelName, chunksSeen, chunksTotal}).
ExtractArgs ==
  {[NoArgs EXCEPT !.instruction = i, !.domElements = "0:<li>",
                  !.modelName = "gpt-4o",
                  !.previouslyExtractedContent = c,
                  !.chunksSeen = n[1], !.chunksTotal = n[2]] :
     i \in Instructions, c \in {"{items:[]}", "{items:[A]}"},
     n \in {<<1, 2>>, <<2, 2>>}}

\* observe({instruction, domElements, llmProvider, modelName, image}).
ObserveArgs ==
  {[NoArgs EXCEPT !.instruction = i, !.domElements = "0:<button>",
                  !.modelName = "gpt-4o", !.screenshot = s] :
     i \in Instructions, s \in BOOLEAN}

\* ask({question, llmProvider, modelName}).
AskArgs ==
  {[NoArgs EXCEPT !.instruction = i, !.modelName = "gpt-4o"] :
     i \in Instructions}

\* -------------------------------------------------------------- requests
\* One call of llmClient.createChatCompletion, as the client records it:
\* the prompt pair that built the messages and what went into it, the
\* tool set, the image attachment and the response_model name.
NoRequest ==
  [prompt |-> "", model |-> "", instruction |-> "", steps |-> "",
   domElements |-> "", input |-> Undefined, previous |-> "",
   chunksSeen |-> 0, chunksTotal |-> 0, tools |-> "", image |-> FALSE,
   response_model |-> ""]

VerifyRequest(a) ==
  [NoRequest EXCEPT !.prompt = "VerifyActCompletion", !.model = a.modelName,
                    !.instruction = a.instruction, !.steps = a.steps,
                    !.domElements = a.domElements, !.image = a.screenshot,
                    !.response_model = "Verification"]

ActRequest(a) ==
  [NoRequest EXCEPT !.prompt = "Act", !.model = a.modelName,
                    !.instruction = a.instruction, !.steps = a.steps,
                    !.domElements = a.domElements, !.tools = "actTools",
                    !.image = a.screenshot]

ExtractRequest(a) ==
  [NoRequest EXCEPT !.prompt = "Extract", !.model = a.modelName,
                    !.instruction = a.instruction,
                    !.domElements = a.domElements,
                    !.response_model = "Extraction"]

\* As RefineRequest, without the extraction response.
RefineRequestWithoutExtraction(a, extractionResponse) ==
  [NoRequest EXCEPT !.prompt = "Refine", !.model = a.modelName,
                    !.instruction = a.instruction,
                    !.previous = a.previouslyExtractedContent,
                    !.response_model = "RefinedExtraction"]

RefineRequest(a, extractionResponse) ==
  [NoRequest EXCEPT !.prompt = "Refine", !.model = a.modelName,
                    !.instruction = a.instruction,
                    !.previous = a.previouslyExtractedContent,
                    !.input = extractionResponse,
                    !.response_model = "RefinedExtraction"]

MetadataRequest(a, refinedResponse) ==
  [NoRequest EXCEPT !.prompt = "Metadata", !.model = a.modelName,
                    !.instruction = a.instruction,
                    !.input = refinedResponse,
                    !.chunksSeen = a.chunksSeen,
                    !.chunksTotal = a.chunksTotal,
                    !.response_model = "Metadata"]

ObserveRequest(a) ==
  [NoRequest EXCEPT !.prompt = "Observe", !.model = a.modelName,
                    !.instruction = a.instruction,
                    !.domElements = a.domElements, !.image = a.screenshot,
                    !.response_model = "Observation"]

AskRequest(a) ==
  [NoRequest EXCEPT !.prompt = "Ask", !.model = a.modelName,
                    !.instruction = a.instruction]

\* ------------------------------------------------------- client responses
\* A tool invocation: a name and a JSON-encoded argument payload.
ToolCall(n, a) == [name |-> n, arguments |-> a]

\* Argument payloads: an action, a truncated (unparseable) text, the JSON
\* text of null.
Payloads == {"{method:click,element:7}", "{method:click,elem", "null"}

ToolCallSet ==
  {ToolCall("skipSection", "{reason:done}")}
    \cup {ToolCall("doAction", a) : a \in Payloads}

RECURSIVE SeqsUpTo(_, _)
\* All sequences over S of length at most n.
SeqsUpTo(S, n) ==
  IF n = 0 THEN {<<>>}
  ELSE LET shorter == SeqsUpTo(S, n - 1)
       IN  shorter \cup {Append(q, x) : q \in shorter, x \in S}

\* A chat completion: `choices` is the length of response.choices,
\* `has_tool_calls` whether choices[0].message.tool_calls is set at all.
Completion(n, present, calls, text) ==
  [kind |-> "object", prim |-> "", choices |-> n,
   has_tool_calls |-> present, tool_calls |-> calls, content |-> text]

ActValues ==
  {Completion(1, FALSE, <<>>, Str("I cannot"))}
    \cup {Completion(1, TRUE, c, Null) : c \in SeqsUpTo(ToolCallSet, MaxToolCalls)}
    \cup {Completion(0, FALSE, <<>>, Null)}

AskValues ==
  {Completion(1, FALSE, <<>>, t) : t \in {Str("forty-two"), Null}}
    \cup {Completion(0, FALSE, <<>>, Null)}

\* What comes back for the Verification schema: any primitive, or an
\* object whose `completed` is missing, a boolean, null or a string.
VerificationValues ==
  Primitives
    \cup {[kind |-> "object", prim |-> "", completed |-> c] :
            c \in {Undefined, True, False, Null, Str("yes")}}

\* What comes back for the caller's schema: an object (the identity `ref`
\* is the index of the request it answers), with or without a field named
\* `metadata` of the caller's own; or no object at all.
SchemaValues(i) ==
  {[kind |-> "object", prim |-> "", ref |-> i, items |-> d, metadata |-> m] :
     d \in {"[A]", "[A,B]"}, m \in {Undefined, Str("caller's")}}
    \cup {Null, Undefined, Str("text")}

MetadataValues(i) ==
  {[kind |-> "object", prim |-> "", ref |-> i,
    progress |-> "found 1 item", completed |-> c] : c \in {False, True}}
    \cup {Null}

ObservationValues(i) ==
  {[kind |-> "object", prim |-> "", ref |-> i, elements |-> e] :
     e \in {<<>>, <<7>>, <<7, 9>>}}
    \cup {Null, Undefined, Str(""), Str("text"), Num("0"), False}

\* The settlements the client can give request number i of an invocation.
ClientSettlements(req, i) ==
  {Failed(e) : e \in ClientErrors}
    \cup {Fulfilled(v) :
            v \in CASE req.prompt = "Act" -> ActValues
                    [] req.prompt = "Ask" -> AskValues
                    [] req.prompt = "VerifyActCompletion" -> VerificationValues
                    [] req.prompt = "Metadata" -> MetadataValues(i)
                    [] req.prompt = "Observe" -> ObservationValues(i)
                    [] OTHER -> SchemaValues(i)}

\* ---------------------------------------------------------------- outcomes
\* What a continuation does with the promise the caller holds.
Resolve(v) ==
  [status |-> "resolved", value |-> v, error |-> "", entries |-> <<>>]
ResolveLogged(v, entry) ==
  [status |-> "resolved", value |-> v, error |-> "", entries |-> <<entry>>]
Reject(e) ==
  [status |-> "rejected", value |-> Undefined, error |-> e, entries |-> <<>>]
\* The function calls itself or awaits its next request.
Continue ==
  [status |-> "awaiting", value |-> Undefined, error |-> "", entries |-> <<>>]

\* As Propagate, with the failure caught and undefined returned.
PropagateSwallowed(r) == Resolve(Undefined)

\* A rejected await throws, nothing catches it, and the function's promise
\* rejects with the same reason.
Propagate(r) == Reject(r.err)

LogEntry(c, m) == [category |-> c, message |-> m]

\* ------------------------------------------------- suspension and settling
\* As Awaited, with the await of a later request left out: the function
\* goes on with what it last received while that request is outstanding.
AwaitedOnlyFirst(p) ==
  pc[p] = "ready" \/ (pc[p] = "awaiting" /\ responses[p] # <<>>)

\* The continuation after an `await` runs once the awaited request of the
\* invocation has been settled.
Awaited(p) == pc[p] = "ready"

\* llmClient.createChatCompletion(req): the request goes out and the
\* invocation suspends on it.
Issue(p, req) ==
  /\ requests' = [requests EXCEPT ![p] = Append(@, req)]
  /\ outstanding' = [outstanding EXCEPT ![p] = @ \cup {Len(requests[p]) + 1}]
  /\ pc' = [pc EXCEPT ![p] = "awaiting"]

\* The invocation's promise settles as outcome o says: `return v`,
\* `throw e`, with the log entries written on the way.
Settle(p, o) ==
  /\ pc' = [pc EXCEPT ![p] = o.status]
  /\ result' = [result EXCEPT ![p] = o.value]
  /\ error' = [error EXCEPT ![p] = o.error]
  /\ log' = [log EXCEPT ![p] = @ \o o.entries]

\* The call itself: arguments bound, nothing received yet.
Enter(p, name, a) ==
  /\ pc[p] = "idle"
  /\ op' = [op EXCEPT ![p] = name]
  /\ args' = [args EXCEPT ![p] = a]
  /\ frame' = [frame EXCEPT ![p] = a]

\* The completion client settles one outstanding request of invocation p.
Deliver(p, i, r) ==
  /\ outstanding' = [outstanding EXCEPT ![p] = @ \ {i}]
  /\ responses' = [responses EXCEPT ![p] = Append(@, r)]
  /\ pc' = [pc EXCEPT ![p] = IF @ = "awaiting" THEN "ready" ELSE @]
  /\ UNCHANGED <<op, args, frame, depth, locals, requests, result, error, log>>

ClientRespond(p) ==
  /\ outstanding[p] # {}
  /\ \E i \in outstanding[p] :
       \E r \in ClientSettlements(requests[p][i], i) : Deliver(p, i, r)

\* ---------------------------------------------------- verifyActCompletion
\* As UnexpectedFormat, without the `!response` test.
UnexpectedFormatTypeofOnly(v) == TypeOf(v) # "object"

\* `!response || typeof response !== "object"`.
UnexpectedFormat(v) == ~Truthy(v) \/ TypeOf(v) # "object"

\* `response.completed`: a TypeError on null or undefined, undefined when
\* the field is missing.
ReadCompleted(v) ==
  IF Nullish(v) THEN Failed("TypeError")
  ELSE IF v.kind = "object" /\ "completed" \in DOMAIN v
         THEN Fulfilled(v.completed)
         ELSE Fulfilled(Undefined)

\* The body of verifyActCompletion after its await.
VerifyOutcome(r) ==
  IF Thrown(r) THEN Propagate(r)
  ELSE IF UnexpectedFormat(r.val)
    THEN ResolveLogged(False,
           LogEntry("VerifyAct",
                    "Unexpected response format: " \o JsonStringify(r.val)))
  ELSE LET completed == ReadCompleted(r.val)
       IN  IF Thrown(completed) THEN Reject(completed.err)
           ELSE IF completed.val = Undefined
             THEN ResolveLogged(False,
                    LogEntry("VerifyAct",
                             "Missing 'completed' field in response"))
           ELSE Resolve(completed.val)

VerifyCall(p, a) ==
  /\ Enter(p, "verifyActCompletion", a)
  /\ Issue(p, VerifyRequest(a))
  /\ UNCHANGED <<depth, locals, responses, result, error, log>>

VerifyResume(p) ==
  /\ op[p] = "verifyActCompletion"
  /\ Awaited(p)
  /\ Settle(p, VerifyOutcome(Last(responses[p])))
  /\ UNCHANGED <<op, args, frame, depth, locals, requests, outstanding,
                 responses>>

\* --------------------------------------------------------------------- act
\* JSON.parse(text): the value, or a SyntaxError.
JsonParse(text) ==
  CASE text = "{method:click,element:7}" ->
         Fulfilled([kind |-> "object", prim |-> "", method |-> "click",
                    element |-> 7])
    [] text = "{reason:done}" ->
         Fulfilled([kind |-> "object", prim |-> "", reason |-> "done"])
    [] text = "null" -> Fulfilled(Null)
    [] OTHER -> Failed("SyntaxError")

\* As HasToolCalls, with the length test off by one.
HasToolCallsMoreThanOne(v) == v.has_tool_calls /\ Len(v.tool_calls) > 1

\* `toolCalls && toolCalls.length > 0`.
HasToolCalls(v) == v.has_tool_calls /\ Len(v.tool_calls) > 0

\* As IsSkipTool, with another tool name.
IsSkipToolOtherName(call) == call.name = "skip"

\* `toolCalls[0].function.name === "skipSection"`.
IsSkipTool(call) == call.name = "skipSection"

\* As AtCeiling, off by one.
AtCeilingOffByOne(retries) == retries > RetryCeiling

\* `retries >= 2`.
AtCeiling(retries) == retries >= RetryCeiling

\* As NextRetries, without the increment.
NextRetriesSame(retries) == retries

\* `retries: retries + 1`.
NextRetries(retries) == retries + 1

\* The arguments of the recursive call: action, domElements, steps,
\* llmProvider, modelName, retries + 1 and logger are passed on; no
\* screenshot is passed.
RetryArgs(f) ==
  [f EXCEPT !.retries = NextRetries(f.retries), !.screenshot = FALSE]

\* As ParseArguments, with the parse error caught and turned into null.
ParseArgumentsCaught(call) ==
  IF Thrown(JsonParse(call.arguments)) THEN Fulfilled(Null)
  ELSE JsonParse(call.arguments)

\* `JSON.parse(toolCalls[0].function.arguments)`.
ParseArguments(call) == JsonParse(call.arguments)

\* As Exhausted, without the logger call.
ExhaustedSilently == Resolve(Null)

\* At the ceiling: `logger({category: "Act", message: "No tool calls found
\* in response"}); return null`.
Exhausted ==
  ResolveLogged(Null, LogEntry("Act", "No tool calls found in response"))

\* As FirstToolCall, taking the last invocation of the response.
LastToolCall(v) == v.tool_calls[Len(v.tool_calls)]

\* `toolCalls[0]`.
FirstToolCall(v) == v.tool_calls[1]

\* The body of act after its await, in the call whose arguments are f.
ActOutcome(f, r) ==
  IF Thrown(r) THEN Propagate(r)
  ELSE IF r.val.choices = 0 THEN Reject("TypeError")
  ELSE IF HasToolCalls(r.val)
    THEN IF IsSkipTool(FirstToolCall(r.val)) THEN Resolve(Null)
         ELSE LET parsed == ParseArguments(FirstToolCall(r.val))
              IN  IF Thrown(parsed) THEN Reject(parsed.err)
                  ELSE Resolve(parsed.val)
  ELSE IF AtCeiling(f.retries) THEN Exhausted
  ELSE Continue

\* As ActiveFrame, with the retry counter kept in one variable that all
\* invocations share instead of in a parameter of the call.
ActiveFrameSharedCounter(p) ==
  LET most == CHOOSE q \in Procs :
                \A o \in Procs : frame[q].retries >= frame[o].retries
  IN  [frame[p] EXCEPT !.retries = frame[most].retries]

\* What the running call reads its parameters from: `retries` and the
\* others are parameters of the call, bound anew in every call.
ActiveFrame(p) == frame[p]

ActCall(p, a) ==
  /\ Enter(p, "act", a)
  /\ Issue(p, ActRequest(a))
  /\ UNCHANGED <<depth, locals, responses, result, error, log>>

ActResume(p) ==
  /\ op[p] = "act"
  /\ Awaited(p)
  /\ LET o == ActOutcome(ActiveFrame(p), Last(responses[p]))
     IN  IF o = Continue
           THEN /\ frame' = [frame EXCEPT ![p] = RetryArgs(ActiveFrame(p))]
                /\ depth' = [depth EXCEPT ![p] = @ + 1]
                /\ Issue(p, ActRequest(RetryArgs(ActiveFrame(p))))
                /\ UNCHANGED <<result, error, log>>
           ELSE /\ Settle(p, o)
                /\ UNCHANGED <<frame, depth, requests, outstanding>>
  /\ UNCHANGED <<op, args, locals, responses>>

\* ----------------------------------------------------------------- extract
NoLocals == [extractionResponse |-> Undefined, refinedResponse |-> Undefined]

\* As AttachMetadata, with the assignment left out.
AttachMetadataOmitted(refinedResponse, metadataResponse) ==
  IF refinedResponse.kind # "object" THEN Reject("TypeError")
  ELSE Resolve(refinedResponse)

\* As AttachMetadata, with a `metadata` field the object already has left
\* as it is.
AttachMetadataUnlessPresent(refinedResponse, metadataResponse) ==
  IF refinedResponse.kind # "object" THEN Reject("TypeError")
  ELSE IF refinedResponse.metadata # Undefined THEN Resolve(refinedResponse)
  ELSE Resolve([refinedResponse EXCEPT !.metadata = metadataResponse])

\* `refinedResponse.metadata = metadataResponse; return refinedResponse`:
\* the same object with that one field set.  The file is an ES module, so
\* the assignment runs in strict mode, where setting a property on null,
\* undefined or a primitive throws a TypeError.
AttachMetadata(refinedResponse, metadataResponse) ==
  IF refinedResponse.kind # "object" THEN Reject("TypeError")
  ELSE Resolve([refinedResponse EXCEPT !.metadata = metadataResponse])

ExtractCall(p, a) ==
  /\ Enter(p, "extract", a)
  /\ Issue(p, ExtractRequest(a))
  /\ UNCHANGED <<depth, locals, responses, result, error, log>>

\* `const extractionResponse = await ...`, then the Refine request.
ExtractResume(p) ==
  /\ op[p] = "extract"
  /\ Len(requests[p]) = 1
  /\ Awaited(p)
  /\ LET r == Last(responses[p])
     IN  IF Thrown(r)
           THEN /\ Settle(p, Propagate(r))
                /\ UNCHANGED <<locals, requests, outstanding>>
           ELSE /\ locals' = [locals EXCEPT ![p].extractionResponse = r.val]
                /\ Issue(p, RefineRequest(args[p], r.val))
                /\ UNCHANGED <<result, error, log>>
  /\ UNCHANGED <<op, args, frame, depth, responses>>

\* `const refinedResponse = await ...`, then the Metadata request.
RefineResume(p) ==
  /\ op[p] = "extract"
  /\ Len(requests[p]) = 2
  /\ Awaited(p)
  /\ LET r == Last(responses[p])
     IN  IF Thrown(r)
           THEN /\ Settle(p, Propagate(r))
                /\ UNCHANGED <<locals, requests, outstanding>>
           ELSE /\ locals' = [locals EXCEPT ![p].refinedResponse = r.val]
                /\ Issue(p, MetadataRequest(args[p], r.val))
                /\ UNCHANGED <<result, error, log>>
  /\ UNCHANGED <<op, args, frame, depth, responses>>

\* `const metadataResponse = await ...`, the attachment and the return.
MetadataResume(p) ==
  /\ op[p] = "extract"
  /\ Len(requests[p]) = 3
  /\ Awaited(p)
  /\ LET r == Last(responses[p])
     IN  Settle(p, IF Thrown(r) THEN Propagate(r)
                   ELSE AttachMetadata(locals[p].refinedResponse, r.val))
  /\ UNCHANGED <<op, args, frame, depth, locals, requests, outstanding,
                 responses>>

\* ----------------------------------------------------------------- observe
\* As NoObservation, with an empty element list counted as no response.
NoObservationOrEmpty(v) ==
  ~Truthy(v) \/ (v.kind = "object" /\ v.elements = <<>>)

\* `!observationResponse`.
NoObservation(v) == ~Truthy(v)

\* The body of observe after its await.
ObserveOutcome(r) ==
  IF Thrown(r) THEN Propagate(r)
  ELSE IF NoObservation(r.val)
    THEN Reject("Error: no response when finding a selector")
  ELSE Resolve(r.val)

ObserveCall(p, a) ==
  /\ Enter(p, "observe", a)
  /\ Issue(p, ObserveRequest(a))
  /\ UNCHANGED <<depth, locals, responses, result, error, log>>

ObserveResume(p) ==
  /\ op[p] = "observe"
  /\ Awaited(p)
  /\ Settle(p, ObserveOutcome(Last(responses[p])))
  /\ UNCHANGED <<op, args, frame, depth, locals, requests, outstanding,
                 responses>>

\* --------------------------------------------------------------------- ask
\* `return response.choices[0].message.content`.
AskOutcome(r) ==
  IF Thrown(r) THEN Propagate(r)
  ELSE IF r.val.choices = 0 THEN Reject("TypeError")
  ELSE Resolve(r.val.content)

AskCall(p, a) ==
  /\ Enter(p, "ask", a)
  /\ Issue(p, AskRequest(a))
  /\ UNCHANGED <<depth, locals, responses, result, error, log>>

AskResume(p) ==
  /\ op[p] = "ask"
  /\ Awaited(p)
  /\ Settle(p, AskOutcome(Last(responses[p])))
  /\ UNCHANGED <<op, args, frame, depth, locals, requests, outstanding,
                 responses>>

\* ---------------------------------------------------------- specification
Init ==
  /\ op = [p \in Procs |-> "none"]
  /\ pc = [p \in Procs |-> "idle"]
  /\ args = [p \in Procs |-> NoArgs]
  /\ frame = [p \in Procs |-> NoArgs]
  /\ depth = [p \in Procs |-> 0]
  /\ locals = [p \in Procs |-> NoLocals]
  /\ requests = [p \in Procs |-> <<>>]
  /\ outstanding = [p \in Procs |-> {}]
  /\ responses = [p \in Procs |-> <<>>]
  /\ result = [p \in Procs |-> Undefined]
  /\ error = [p \in Procs |-> ""]
  /\ log = [p \in Procs |-> <<>>]

\* No invocation has been made yet.
Quiet == \A q \in Procs : pc[q] = "idle"

\* One invocation at a time: a caller makes a call in some slot and the
\* call runs to its end without another one beside it.
Next ==
  \E p \in Procs :
    \/ Quiet /\ \E a \in VerifyArgs : VerifyCall(p, a)
    \/ Quiet /\ \E a \in ActArgs : ActCall(p, a)
    \/ Quiet /\ \E a \in ExtractArgs : ExtractCall(p, a)
    \/ Quiet /\ \E a \in ObserveArgs : ObserveCall(p, a)
    \/ Quiet /\ \E a \in AskArgs : AskCall(p, a)
    \/ ClientRespond(p)
    \/ VerifyResume(p)
    \/ ActResume(p)
    \/ ExtractResume(p)
    \/ RefineResume(p)
    \/ MetadataResume(p)
    \/ ObserveResume(p)
    \/ AskResume(p)

Spec == Init /\ [][Next]_vars

\* Every request is eventually settled by the client, and the event loop
\* eventually runs every continuation that is ready.
Fairness ==
  \A p \in Procs :
    /\ WF_vars(ClientRespond(p))
    /\ WF_vars(VerifyResume(p))
    /\ WF_vars(ActResume(p))
    /\ WF_vars(ExtractResume(p))
    /\ WF_vars(RefineResume(p))
    /\ WF_vars(MetadataResume(p))
    /\ WF_vars(ObserveResume(p))
    /\ WF_vars(AskResume(p))

FairSpec == Spec /\ Fairness

\* ------------------------------------------------- concurrent invocations
\* Callers invoke operations in any slot at any time, against the same
\* client.  One set of arguments per operation (no screenshot, the default
\* retry counter, the first chunk), and for every request a few of the
\* client's settlements: the values named below and one failure, or any
\* failure for the operations that make a single request.
ConcArgs(S) ==
  {a \in S : /\ a.instruction = "click the submit button"
             /\ ~a.screenshot
             /\ a.retries = DefaultRetries
             /\ a.chunksSeen <= 1
             /\ a.previouslyExtractedContent \in {"", "{items:[]}"}}

ConcValues ==
  {Completion(1, FALSE, <<>>, Str("I cannot")),
   Completion(1, TRUE, <<ToolCall("skipSection", "{reason:done}")>>, Null),
   Completion(1, TRUE,
              <<ToolCall("doAction", "{method:click,element:7}")>>, Null),
   Completion(1, FALSE, <<>>, Str("forty-two")),
   [kind |-> "object", prim |-> "", completed |-> True]}
    \cup {[kind |-> "object", prim |-> "", ref |-> i, items |-> "[A]",
           metadata |-> Undefined] : i \in 1..2}
    \cup {[kind |-> "object", prim |-> "", ref |-> 3,
           progress |-> "found 1 item", completed |-> False]}
    \cup {[kind |-> "object", prim |-> "", ref |-> 1, elements |-> <<7>>]}

ConcSettlements(req, i) ==
  {r \in ClientSettlements(req, i) :
     IF r.ok THEN r.val \in ConcValues
     ELSE \/ r.err = "ClientTimeout"
          \/ req.prompt \in {"VerifyActCompletion", "Observe", "Ask"}}

ConcClientRespond(p) ==
  /\ outstanding[p] # {}
  /\ \E i \in outstanding[p] :
       \E r \in ConcSettlements(requests[p][i], i) : Deliver(p, i, r)

ConcNext ==
  \E p \in Procs :
    \/ \E a \in ConcArgs(VerifyArgs) : VerifyCall(p, a)
    \/ \E a \in ConcArgs(ActArgs) : ActCall(p, a)
    \/ \E a \in ConcArgs(ExtractArgs) : ExtractCall(p, a)
    \/ \E a \in ConcArgs(ObserveArgs) : ObserveCall(p, a)
    \/ \E a \in ConcArgs(AskArgs) : AskCall(p, a)
    \/ ConcClientRespond(p)
    \/ VerifyResume(p)
    \/ ActResume(p)
    \/ ExtractResume(p)
    \/ RefineResume(p)
    \/ MetadataResume(p)
    \/ ObserveResume(p)
    \/ AskResume(p)

ConcSpec == Init /\ [][ConcNext]_vars

\* ------------------------------------------- act with any retry counter
\* `retries?: number`: nothing stops a caller from passing a counter below
\* 0.  One act invocation at a time, its counter any integer from
\* -MaxBelowZero to MaxStartRetries.
AnyRetriesArgs ==
  {[a EXCEPT !.retries = r] :
     a \in ActArgs, r \in (0 - MaxBelowZero)..MaxStartRetries}

AnyRetriesNext ==
  \E p \in Procs :
    \/ Quiet /\ \E a \in AnyRetriesArgs : ActCall(p, a)
    \/ ClientRespond(p)
    \/ ActResume(p)

AnyRetriesSpec == Init /\ [][AnyRetriesNext]_vars

TypeOK ==
  /\ op \in [Procs -> {"none", "verifyActCompletion", "act", "extract",
                       "observe", "ask"}]
  /\ pc \in [Procs -> {"idle", "awaiting", "ready", "resolved", "rejected"}]
  /\ \A p \in Procs :
       /\ depth[p] \in Nat
       /\ outstanding[p] \subseteq 1..Len(requests[p])
       /\ Len(responses[p]) <= Len(requests[p])

\* ------------------------------------------------------------- properties
\* The invocation's promise has settled.
\* ------------------------------------------------ an invocation by itself
\* Where the call of act with arguments f stands once its continuation has
\* run on each of the settlements rs in turn, with nothing else running:
\* the outcome, the arguments of the innermost call, the requests issued.
RECURSIVE ActAlone(_, _)
ActAlone(f, rs) ==
  IF rs = <<>> THEN [outcome |-> Continue, frame |-> f, issued |-> 1]
  ELSE LET o == ActOutcome(f, Head(rs))
       IN  IF o = Continue
             THEN LET rest == ActAlone(RetryArgs(f), Tail(rs))
                  IN  [rest EXCEPT !.issued = @ + 1]
             ELSE [outcome |-> o, frame |-> f, issued |-> 1]

\* The same for extract.
ExtractAlone(a, rs) ==
  LET n == Len(rs)
      stop == IF \E i \in 1..n : Thrown(rs[i])
                THEN CHOOSE i \in 1..n :
                       Thrown(rs[i]) /\ \A j \in 1..(i - 1) : ~Thrown(rs[j])
                ELSE 0
  IN  IF stop > 0
        THEN [outcome |-> Propagate(rs[stop]), frame |-> a, issued |-> stop]
      ELSE IF n < 3
        THEN [outcome |-> Continue, frame |-> a, issued |-> n + 1]
      ELSE [outcome |-> AttachMetadata(rs[2].val, rs[3].val), frame |-> a,
            issued |-> 3]

\* The same for the operations that make one request.
SingleAlone(o, a, rs) ==
  [outcome |-> IF rs = <<>> THEN Continue
               ELSE CASE o = "verifyActCompletion" -> VerifyOutcome(rs[1])
                      [] o = "observe" -> ObserveOutcome(rs[1])
                      [] OTHER -> AskOutcome(rs[1]),
   frame |-> a, issued |-> 1]

Alone(o, a, rs) ==
  CASE o = "act" -> ActAlone(a, rs)
    [] o = "extract" -> ExtractAlone(a, rs)
    [] OTHER -> SingleAlone(o, a, rs)

\* The settlements the continuation of p has already run on.
Processed(p) ==
  IF pc[p] = "ready" THEN SubSeq(responses[p], 1, Len(responses[p]) - 1)
  ELSE responses[p]

Done(p) == pc[p] \in {"resolved", "rejected"}

\* A fulfilled act response whose first choice carries no tool invocation:
\* tool_calls absent or empty.
NoToolInvocation(r) ==
  /\ r.ok
  /\ r.val.choices > 0
  /\ (~r.val.has_tool_calls \/ r.val.tool_calls = <<>>)

\* A fulfilled act response whose first tool invocation has name n.
FirstToolIs(r, names) ==
  /\ r.ok
  /\ r.val.choices > 0
  /\ r.val.has_tool_calls
  /\ r.val.tool_calls # <<>>
  /\ r.val.tool_calls[1].name \in names

AllNoTool(p) ==
  \A i \in 1..Len(responses[p]) : NoToolInvocation(responses[p][i])

\* C1: an act invocation started with the default retry counter, all of
\* whose responses so far carry no tool invocation, has issued at most 3
\* completion requests; it has not rejected; and once it has settled it
\* has issued exactly 3 requests and resolved to null.
C1_ThreeAttemptsThenNull ==
  \A p \in Procs :
    (op[p] = "act" /\ args[p].retries = DefaultRetries /\ AllNoTool(p)) =>
      /\ Len(requests[p]) <= 3
      /\ pc[p] # "rejected"
      /\ Done(p) => /\ Len(requests[p]) = 3
                    /\ Len(responses[p]) = 3
                    /\ pc[p] = "resolved"
                    /\ result[p] = Null

C1_Witness ==
  \E p \in Procs :
    /\ op[p] = "act" /\ args[p].retries = DefaultRetries /\ AllNoTool(p)
    /\ Len(responses[p]) = 3
    /\ pc[p] = "resolved" /\ result[p] = Null

\* C2: an act invocation whose first response selects the skip tool never
\* issues a second request, never recurses, writes no log entry, and
\* settles only by resolving to null.
C2_SkipFirstNoRetry ==
  \A p \in Procs :
    (op[p] = "act" /\ responses[p] # <<>>
       /\ FirstToolIs(responses[p][1], {"skipSection"})) =>
      /\ Len(requests[p]) = 1
      /\ depth[p] = 0
      /\ log[p] = <<>>
      /\ pc[p] \in {"ready", "resolved"}
      /\ pc[p] = "resolved" => result[p] = Null

C2_Witness ==
  \E p \in Procs :
    /\ op[p] = "act" /\ responses[p] # <<>>
    /\ FirstToolIs(responses[p][1], {"skipSection"})
    /\ pc[p] = "resolved" /\ result[p] = Null /\ Len(requests[p]) = 1

\* A verification response that is not object-shaped, or an object
\* without a `completed` field.
MalformedVerification(r) ==
  /\ r.ok
  /\ \/ r.val.kind # "object"
     \/ "completed" \notin DOMAIN r.val
     \/ r.val.completed = Undefined

\* C3: when the response to verifyActCompletion is not object-shaped or
\* lacks `completed`, the invocation does not reject, and once settled it
\* has resolved to false and written exactly one diagnostic log entry.
C3_MalformedVerificationIsFalse ==
  \A p \in Procs :
    (op[p] = "verifyActCompletion" /\ responses[p] # <<>>
       /\ MalformedVerification(responses[p][1])) =>
      /\ pc[p] \in {"ready", "resolved"}
      /\ pc[p] = "resolved" =>
           /\ result[p] = False
           /\ Len(log[p]) = 1
           /\ log[p][1].category = "VerifyAct"

C3_Witness ==
  \E p \in Procs :
    /\ op[p] = "verifyActCompletion" /\ pc[p] = "resolved"
    /\ responses[p][1].val = Null
    /\ result[p] = False /\ Len(log[p]) = 1

\* C4: a resolved extract invocation returns the object of its second
\* (Refine) response, identity and fields, with `metadata` equal to its
\* third (Metadata) response; it is not the first response's object and
\* nothing of previouslyExtractedContent is merged into it.
C4_ReturnsRefinedWithMetadata ==
  \A p \in Procs :
    (op[p] = "extract" /\ pc[p] = "resolved") =>
      /\ Len(responses[p]) = 3
      /\ responses[p][2].val.kind = "object"
      /\ result[p].kind = "object"
      /\ result[p].ref = 2
      /\ result[p].items = responses[p][2].val.items
      /\ result[p].metadata = responses[p][3].val
      /\ DOMAIN result[p] = DOMAIN responses[p][2].val

C4_Witness ==
  \E p \in Procs :
    /\ op[p] = "extract" /\ pc[p] = "resolved"
    /\ responses[p][1].val.kind = "object"
    /\ responses[p][1].val.items # responses[p][2].val.items
    /\ result[p].metadata.kind = "object"
    /\ result[p].metadata.ref = 3

\* C5: in every extract invocation the first request carries no earlier
\* value, the second (Refine) is built from the value of the first
\* response and previouslyExtractedContent, and the third (Metadata) from
\* the value of the second response and chunksSeen, chunksTotal.
C5_StagesReceivePredecessor ==
  \A p \in Procs :
    op[p] = "extract" =>
      /\ requests[p][1].prompt = "Extract"
      /\ requests[p][1].input = Undefined
      /\ Len(requests[p]) >= 2 =>
           /\ Len(responses[p]) >= 1
           /\ responses[p][1].ok
           /\ requests[p][2].prompt = "Refine"
           /\ requests[p][2].input = responses[p][1].val
           /\ requests[p][2].previous = args[p].previouslyExtractedContent
      /\ Len(requests[p]) >= 3 =>
           /\ Len(responses[p]) >= 2
           /\ responses[p][2].ok
           /\ requests[p][3].prompt = "Metadata"
           /\ requests[p][3].input = responses[p][2].val
           /\ requests[p][3].chunksSeen = args[p].chunksSeen
           /\ requests[p][3].chunksTotal = args[p].chunksTotal

C5_Witness ==
  \E p \in Procs :
    /\ op[p] = "extract" /\ Len(requests[p]) = 3
    /\ requests[p][2].input.kind = "object"
    /\ requests[p][3].input.kind = "object"
    /\ requests[p][2].input # requests[p][3].input

\* The prompts of the three stages, in order.
StagePrompts == <<"Extract", "Refine", "Metadata">>

\* C6: an extract invocation issues its requests in the order Extract,
\* Refine, Metadata; request n+1 exists only once response n has been
\* received; and at most one of its requests is outstanding.
C6_StagesStrictlySequential ==
  \A p \in Procs :
    op[p] = "extract" =>
      /\ Len(requests[p]) <= 3
      /\ \A i \in 1..Len(requests[p]) : requests[p][i].prompt = StagePrompts[i]
      /\ Len(requests[p]) <= Len(responses[p]) + 1
      /\ Cardinality(outstanding[p]) <= 1
      /\ outstanding[p] \subseteq {Len(requests[p])}

C6_Witness ==
  \E p \in Procs :
    /\ op[p] = "extract" /\ Len(requests[p]) = 3
    /\ outstanding[p] = {3} /\ Len(responses[p]) = 2

\* C7: when the client fails request i of an extract invocation, that
\* request is the last one issued (no later stage, no retry), the
\* invocation never resolves, and once settled it has rejected with
\* exactly that failure and returned nothing.
C7_ClientFailurePropagates ==
  \A p \in Procs :
    op[p] = "extract" =>
      \A i \in 1..Len(responses[p]) :
        ~responses[p][i].ok =>
          /\ Len(requests[p]) = i
          /\ Len(responses[p]) = i
          /\ outstanding[p] = {}
          /\ pc[p] \in {"ready", "rejected"}
          /\ result[p] = Undefined
          /\ pc[p] = "rejected" => error[p] = responses[p][i].err

C7_Witness ==
  \E p \in Procs :
    /\ op[p] = "extract" /\ pc[p] = "rejected"
    /\ Len(responses[p]) = 2 /\ ~responses[p][2].ok
    /\ responses[p][1].val.kind = "object"
    /\ error[p] = "ClientSchemaError"

\* No response is present: the client failed, or it handed back null,
\* undefined or an empty primitive.
AbsentObservation(r) ==
  \/ ~r.ok
  \/ r.val \in {Null, Undefined, Str(""), Num("0"), False}

\* C8: a settled observe invocation has resolved to its response,
\* unchanged, when a response is present (an empty element list
\* included), and has rejected exactly when none is present.
C8_ObserveReturnsResponseOrRejects ==
  \A p \in Procs :
    (op[p] = "observe" /\ Done(p)) =>
      /\ Len(requests[p]) = 1
      /\ Len(responses[p]) = 1
      /\ pc[p] = "rejected" <=> AbsentObservation(responses[p][1])
      /\ pc[p] = "resolved" => result[p] = responses[p][1].val
      /\ (responses[p][1].ok /\ responses[p][1].val \in {Null, Undefined}) =>
           error[p] = "Error: no response when finding a selector"

C8_Witness ==
  \E p \in Procs :
    /\ op[p] = "observe" /\ pc[p] = "resolved"
    /\ result[p].kind = "object" /\ result[p].elements = <<>>

\* A fulfilled act response whose first tool invocation is not the skip
\* tool and has a payload JSON.parse rejects.
UnparseableAction(r) ==
  /\ FirstToolIs(r, {"doAction"})
  /\ Thrown(JsonParse(r.val.tool_calls[1].arguments))

\* C9: when the latest response of an act invocation selects a non-skip
\* tool with an unparseable payload, no further request is issued, no log
\* entry has been written, the invocation does not resolve, and once
\* settled it has rejected with the parse error, however many no-tool
\* attempts came before.
C9_ParseFailurePropagates ==
  \A p \in Procs :
    (op[p] = "act" /\ responses[p] # <<>>
       /\ UnparseableAction(Last(responses[p]))) =>
      /\ Len(requests[p]) = Len(responses[p])
      /\ outstanding[p] = {}
      /\ log[p] = <<>>
      /\ pc[p] \in {"ready", "rejected"}
      /\ result[p] = Undefined
      /\ pc[p] = "rejected" => error[p] = "SyntaxError"

C9_Witness ==
  \E p \in Procs :
    /\ op[p] = "act" /\ Len(responses[p]) = 3
    /\ UnparseableAction(responses[p][3])
    /\ pc[p] = "rejected" /\ error[p] = "SyntaxError"

NoToolCallsEntry ==
  [category |-> "Act", message |-> "No tool calls found in response"]

\* C11: a settled act invocation has written the "No tool calls found in
\* response" entry exactly once, and nothing else, when it resolved to
\* null because every one of its responses lacked a tool invocation; in
\* every other case - a skip tool on the first or a later attempt, an
\* action, a rejection - its log is empty.
C11_LogTellsExhaustionFromSkip ==
  \A p \in Procs :
    (op[p] = "act" /\ Done(p)) =>
      /\ (pc[p] = "resolved" /\ result[p] = Null /\ AllNoTool(p)) =>
           log[p] = <<NoToolCallsEntry>>
      /\ (pc[p] = "resolved" /\ result[p] = Null
            /\ FirstToolIs(Last(responses[p]), {"skipSection"})) =>
           log[p] = <<>>
      /\ (pc[p] = "rejected" \/ result[p] # Null) => log[p] = <<>>
      /\ log[p] # <<>> => AllNoTool(p)

C11_Witness ==
  \E p \in Procs :
    /\ op[p] = "act" /\ pc[p] = "resolved" /\ result[p] = Null
    /\ Len(responses[p]) = 3 /\ AllNoTool(p)
    /\ log[p] = <<NoToolCallsEntry>>

\* C12: under ConcSpec, where invocations interleave freely, every
\* invocation is where it would be by itself, given its own arguments and
\* the settlements of its own requests: the same number of requests, the
\* same retry counter, the same result, rejection and log.  An act
\* invocation never issues more than 3 requests.
C12_InvocationsIndependent ==
  \A p \in Procs :
    op[p] # "none" =>
      LET alone == Alone(op[p], args[p], Processed(p))
      IN  /\ Len(requests[p]) = alone.issued
          /\ frame[p] = alone.frame
          /\ Done(p) <=> alone.outcome # Continue
          /\ Done(p) => /\ pc[p] = alone.outcome.status
                        /\ result[p] = alone.outcome.value
                        /\ error[p] = alone.outcome.error
                        /\ log[p] = alone.outcome.entries
          /\ ~Done(p) => /\ result[p] = Undefined
                         /\ error[p] = ""
                         /\ log[p] = <<>>
          /\ op[p] = "act" => Len(requests[p]) <= 3

C12_Witness ==
  \E p, q \in Procs :
    /\ p # q
    /\ op[p] = "act" /\ pc[p] = "resolved" /\ Len(requests[p]) = 3
    /\ AllNoTool(p) /\ log[p] = <<NoToolCallsEntry>>
    /\ op[q] = "act" /\ pc[q] = "awaiting" /\ frame[q].retries = 1

\* C13: every request of an act invocation, the retries included, is the
\* request of the first attempt - instruction, step history, element
\* list, model, tool set and image attachment - and the retry counter of
\* the running call is the starting counter plus one per retry.
C13_RetryRepeatsFirstRequest ==
  \A p \in Procs :
    op[p] = "act" =>
      /\ \A i \in 1..Len(requests[p]) : requests[p][i] = requests[p][1]
      /\ frame[p].retries = args[p].retries + depth[p]

\* A fulfilled act response whose first tool invocation is not the skip
\* tool and has a payload JSON.parse accepts.
ParseableAction(r) ==
  /\ FirstToolIs(r, {"doAction"})
  /\ ~Thrown(JsonParse(r.val.tool_calls[1].arguments))

\* C14: when the responses of an act invocation are k without a tool
\* invocation followed by one that selects a non-skip tool with a
\* parseable payload, k + 1 requests have been issued and no more, k is
\* at most 2, the log is empty, and the invocation settles only by
\* resolving to that parsed payload.
C14_ActionAfterNoToolAttempts ==
  \A p \in Procs :
    (op[p] = "act" /\ responses[p] # <<>>
       /\ ParseableAction(Last(responses[p]))
       /\ \A i \in 1..(Len(responses[p]) - 1) :
            NoToolInvocation(responses[p][i])) =>
      /\ Len(responses[p]) <= 3
      /\ Len(requests[p]) = Len(responses[p])
      /\ outstanding[p] = {}
      /\ log[p] = <<>>
      /\ pc[p] \in {"ready", "resolved"}
      /\ pc[p] = "resolved" =>
           result[p] =
             JsonParse(Last(responses[p]).val.tool_calls[1].arguments).val

C14_Witness ==
  \E p \in Procs :
    /\ op[p] = "act" /\ pc[p] = "resolved"
    /\ Len(responses[p]) = 3 /\ Len(requests[p]) = 3
    /\ NoToolInvocation(responses[p][1])
    /\ NoToolInvocation(responses[p][2])
    /\ ParseableAction(responses[p][3])
    /\ result[p].kind = "object" /\ result[p].method = "click"
    /\ log[p] = <<>>

\* C15: a verifyActCompletion invocation whose request the client
\* fulfilled resolves to a boolean: to true exactly when the response is
\* an object whose `completed` is true, and to false otherwise.
C15_VerificationIsBoolean ==
  \A p \in Procs :
    (op[p] = "verifyActCompletion" /\ Done(p) /\ responses[p][1].ok) =>
      /\ pc[p] = "resolved"
      /\ result[p] \in {True, False}
      /\ result[p] = True <=>
           /\ responses[p][1].val.kind = "object"
           /\ responses[p][1].val.completed = True

\* The operations that make one completion request.
SingleRequestOps == {"verifyActCompletion", "observe", "ask"}

\* C16: under ConcSpec no invocation ever has more than one request
\* outstanding; verifyActCompletion, observe and ask issue one request
\* and never another; and when the client fails that request they never
\* resolve and, once settled, have rejected with the client's own reason.
C16_OneRequestAtATime ==
  \A p \in Procs :
    /\ Cardinality(outstanding[p]) <= 1
    /\ op[p] \in SingleRequestOps =>
         /\ Len(requests[p]) = 1
         /\ depth[p] = 0
         /\ (responses[p] # <<>> /\ ~responses[p][1].ok) =>
              /\ pc[p] \in {"ready", "rejected"}
              /\ result[p] = Undefined
              /\ pc[p] = "rejected" => error[p] = responses[p][1].err

C16_Witness ==
  \E p, q \in Procs :
    /\ p # q
    /\ op[p] = "observe" /\ pc[p] = "rejected"
    /\ error[p] = "ClientSchemaError"
    /\ op[q] = "extract" /\ outstanding[q] = {2}

\* C17: a resolved extract invocation returns the fields of its second
\* response unchanged except `metadata`, and no field more or less;
\* `metadata` is the third response, also when the second response had a
\* `metadata` of the caller's own, which is replaced.
C17_OnlyMetadataChanges ==
  \A p \in Procs :
    (op[p] = "extract" /\ pc[p] = "resolved") =>
      LET refined == responses[p][2].val
      IN  /\ DOMAIN result[p] = DOMAIN refined
          /\ \A f \in DOMAIN refined \ {"metadata"} : result[p][f] = refined[f]
          /\ result[p].metadata = responses[p][3].val

C17_Witness ==
  \E p \in Procs :
    /\ op[p] = "extract" /\ pc[p] = "resolved"
    /\ responses[p][2].val.metadata = Str("caller's")
    /\ result[p].metadata = responses[p][3].val
    /\ result[p].metadata.kind = "object"
    /\ result[p].items = "[A,B]"

\* C17 as first stated: as above, but a `metadata` of the caller's own in
\* the second response is preserved in the result.
C17_CallersMetadataPreserved ==
  \A p \in Procs :
    (op[p] = "extract" /\ pc[p] = "resolved") =>
      LET refined == responses[p][2].val
      IN  /\ \A f \in DOMAIN refined \ {"metadata"} : result[p][f] = refined[f]
          /\ result[p].metadata =
               IF refined.metadata # Undefined THEN refined.metadata
               ELSE responses[p][3].val

\* The number of requests act makes on responses without a tool
\* invocation when its counter starts at r: max(1, 3 - r).
AttemptsFrom(r) == IF 3 - r >= 1 THEN 3 - r ELSE 1

\* C18: whatever counter an act invocation starts with, it has issued at
\* most 3 requests; and when the counter is at least 0 and every response
\* lacks a tool invocation, it has issued exactly max(1, 3 - r) requests
\* once it has settled.
C18_NeverMoreThanThree ==
  \A p \in Procs :
    op[p] = "act" =>
      /\ Len(requests[p]) <= 3
      /\ (AllNoTool(p) /\ Done(p) /\ args[p].retries >= 0) =>
           Len(requests[p]) = AttemptsFrom(args[p].retries)

\* A fulfilled act response that carries more than one tool invocation.
SeveralToolCalls(r) ==
  /\ r.ok
  /\ r.val.choices > 0
  /\ r.val.has_tool_calls
  /\ Len(r.val.tool_calls) > 1

\* C19: when the latest response of an act invocation carries several
\* tool invocations, no further request is issued and the first
\* invocation alone settles the outcome: the skip tool resolves to null;
\* another tool resolves to the parse of its payload (null when the
\* payload is the JSON text of null) or rejects with the parse error when
\* the payload cannot be parsed.  The invocations after the first, a skip
\* tool or an unparseable payload among them, change nothing.
C19_FirstToolCallDecides ==
  \A p \in Procs :
    (op[p] = "act" /\ responses[p] # <<>>
       /\ SeveralToolCalls(Last(responses[p]))) =>
      LET first  == Last(responses[p]).val.tool_calls[1]
          parsed == JsonParse(first.arguments)
      IN  /\ Len(requests[p]) = Len(responses[p])
          /\ outstanding[p] = {}
          /\ log[p] = <<>>
          /\ Done(p) =>
               IF first.name = "skipSection"
                 THEN pc[p] = "resolved" /\ result[p] = Null
               ELSE IF Thrown(parsed)
                 THEN pc[p] = "rejected" /\ error[p] = "SyntaxError"
               ELSE pc[p] = "resolved" /\ result[p] = parsed.val

C19_Witness ==
  \E p \in Procs :
    /\ op[p] = "act" /\ pc[p] = "resolved" /\ Len(responses[p]) = 1
    /\ SeveralToolCalls(responses[p][1])
    /\ responses[p][1].val.tool_calls[1].name = "doAction"
    /\ responses[p][1].val.tool_calls[2].name = "skipSection"
    /\ result[p].kind = "object" /\ result[p].method = "click"

\* C19 as first stated: with several tool invocations, act resolves to
\* null if and only if the first invocation is the skip tool, and
\* otherwise resolves to the parsed payload of the first invocation.
C19_NullIffFirstIsSkip ==
  \A p \in Procs :
    (op[p] = "act" /\ responses[p] # <<>> /\ Done(p)
       /\ SeveralToolCalls(Last(responses[p]))) =>
      LET first == Last(responses[p]).val.tool_calls[1]
      IN  /\ (pc[p] = "resolved" /\ result[p] = Null)
                <=> first.name = "skipSection"
          /\ first.name # "skipSection" =>
               /\ pc[p] = "resolved"
               /\ ~Thrown(JsonParse(first.arguments))
               /\ result[p] = JsonParse(first.arguments).val

====
